---- MODULE Spec2Model ----
(***************************************************************************)
(* A model of the glooey widgets that show a trimesh scene with pyglet:    *)
(* SceneWidget (scene_widget.py) and MeshWidget (mesh_widget.py), their    *)
(* vertex-list caches, the render groups the vertex lists are drawn under, *)
(* the trackball that the pointer handlers drive, and the OpenGL state     *)
(* that SceneGroup / MeshGroup set and unset around a draw.                *)
(***************************************************************************)
EXTENDS Integers, Sequences, FiniteSets, TLC

(***************************************************************************)
(* Bounds of the model.                                                    *)
(***************************************************************************)
\* most geometry nodes in a scene graph
MaxNodes == 2
\* poses are abstracted to the integers modulo PoseMod
PoseMod == 2
\* deepest matrix stacks a draw starts from
MaxDepth == 2

(***************************************************************************)
(* The scene: a sequence of geometry nodes, each naming a geometry, and    *)
(* the kind of every geometry.  Geometry names are 1..MaxNodes; a node     *)
(* list is kept up to renaming of the geometries (first use in order).     *)
(*   plain       a Trimesh whose visual has no material                    *)
(*   textured    a Trimesh whose material converts to a texture            *)
(*   untextured  a Trimesh whose material converts to None                 *)
(*   notTrimesh  not a trimesh.Trimesh: the assert of do_draw fails        *)
(*   badMaterial a Trimesh whose material makes material_to_texture raise  *)
(*               (a material with neither image nor baseColorTexture, an   *)
(*               image that cannot be encoded or loaded)                   *)
(***************************************************************************)
Kinds == {"plain", "textured", "untextured", "notTrimesh"}

\* the kinds that differ in their material only
MaterialKinds == {"plain", "textured", "untextured", "badMaterial"}

GeometryNames == 1..MaxNodes

MaxOf(S) == CHOOSE m \in S : \A x \in S : x <= m

NodeLists == UNION {[1..n -> GeometryNames] : n \in 0..MaxNodes}

Used(nodes) == {nodes[i] : i \in DOMAIN nodes}

Canonical(nodes) ==
    \A i \in DOMAIN nodes :
        nodes[i] <= 1 + MaxOf({0} \cup {nodes[j] : j \in 1..(i - 1)})

ScenesOf(kinds) ==
    {s \in [nodes : NodeLists, geometry : [GeometryNames -> kinds]] :
        /\ Canonical(s.nodes)
        /\ \A g \in GeometryNames \ Used(s.nodes) : s.geometry[g] = "plain"}

Scenes == ScenesOf(Kinds)

MaterialScenes == ScenesOf(MaterialKinds)

\* hasattr(geometry.visual, 'material')
HasMaterial(kind) == kind \in {"textured", "untextured", "badMaterial"}

\* trimesh.rendering.material_to_texture: a texture, None, or an exception
material_to_texture(kind) ==
    IF kind = "untextured" THEN "None"
    ELSE IF kind = "badMaterial" THEN "raise"
    ELSE "texture"

NoScene == [nodes |-> <<>>, geometry |-> [g \in GeometryNames |-> "plain"]]

(***************************************************************************)
(* The rectangle the layout gives the widget, and the pointer events       *)
(* explored: positions along the bottom edge of that rectangle, moving     *)
(* sideways, with the left button alone (rotate) or with shift (pan).      *)
(***************************************************************************)
WidgetRect == [left |-> 0, bottom |-> 0, width |-> 1, height |-> 1]

PointerXs == {0, 1}
PointerYs == {0}
Deltas == {-1, 0, 1}
Still == {0}

(***************************************************************************)
(* pyrender's Trackball as the handlers use it.  A pose is an integer      *)
(* modulo PoseMod, 0 for np.eye(4).                                        *)
(***************************************************************************)
STATE_ROTATE == 0
STATE_PAN == 1
STATE_ROLL == 2
STATE_ZOOM == 3

LEFT == 1
MIDDLE == 2
RIGHT == 4
MOD_SHIFT == 1
MOD_CTRL == 2

NoPoint == <<-9, -9>>

NoTrackball ==
    [created |-> FALSE, state |-> STATE_ROTATE, pdown |-> NoPoint,
     pose |-> 0, n_pose |-> 0]

\* a _trackball property that makes a new Trackball at every use
TrackballRenewed(tb) ==
    [created |-> TRUE, state |-> STATE_ROTATE, pdown |-> NoPoint,
     pose |-> 0, n_pose |-> 0]

\* the _trackball property: created on first use, with pose np.eye(4)
Trackball(tb) ==
    IF tb.created THEN tb
    ELSE [created |-> TRUE, state |-> STATE_ROTATE, pdown |-> NoPoint,
          pose |-> 0, n_pose |-> 0]

Abs(n) == IF n < 0 THEN -n ELSE n

\* how far a drag from pdown to point moves the pose in the given mode
Motion(state, pdown, point) ==
    IF state = STATE_ZOOM
    THEN Abs(point[2] - pdown[2])
    ELSE Abs(point[1] - pdown[1]) + Abs(point[2] - pdown[2])

TbSetState(tb, s) == [tb EXCEPT !.state = s]

TbDown(tb, point) == [tb EXCEPT !.pdown = point, !.pose = tb.n_pose]

TbDrag(tb, point) ==
    [tb EXCEPT !.n_pose = (tb.pose + Motion(tb.state, tb.pdown, point)) % PoseMod]

TbScroll(tb, dy) ==
    [tb EXCEPT !.n_pose = (tb.n_pose + dy) % PoseMod,
               !.pose = (tb.pose + dy) % PoseMod]

(***************************************************************************)
(* State of one widget.                                                    *)
(***************************************************************************)
VARIABLES
    widget,       \* the class of the widget: "SceneWidget" or "MeshWidget"
    scene,        \* SceneWidget.scene
    mesh_list,    \* MeshWidget.vertex_list: 0 for None, else a vertex list id
    mesh_group,   \* MeshWidget.mesh_group: 0 for None, else 1
    rect,         \* Widget.rect, set by the layout
    scene_group,  \* SceneWidget.scene_group: 0 for None, else a group id
    groups,       \* the SceneGroup objects alive: id -> [rect, view_transform]
    vertex_list,  \* SceneWidget.vertex_list: geometry name -> vertex list id
    textures,     \* SceneWidget.textures: geometry name -> texture or None
    batch,        \* the vertex lists alive in the batch: id -> its MeshGroup
    trackball,    \* SceneWidget.__trackball
    lastOp,       \* the operation that ran last
    raised,       \* whether it ended by raising
    calls,        \* do_draw calls since the last do_undraw, counted up to 2
    gl,           \* the OpenGL state
    gl0,          \* the OpenGL state before the draw
    tree,         \* the groups being drawn: a SceneGroup and its MeshGroups
    saved,        \* SceneGroup._mode and SceneGroup._viewport
    pc,           \* where the draw is: [phase, i]
    trace         \* [enters, exits, failed]: set_state and unset_state
                  \* calls so far, and the nodes whose vertex list failed

widgetVars ==
    <<widget, scene, mesh_list, mesh_group, rect, scene_group, groups,
      vertex_list, textures, batch, trackball, lastOp, raised, calls>>

glVars == <<gl, gl0, tree, saved, pc, trace>>

vars == <<widgetVars, glVars>>

Empty == [g \in {} |-> 0]

\* dict[key] = value
Put(f, k, v) == [x \in DOMAIN f \cup {k} |-> IF x = k THEN v ELSE f[x]]

\* the smallest id not in use
Fresh(used) == CHOOSE i \in 1..(Cardinality(used) + 1) :
    i \notin used /\ \A j \in 1..(i - 1) : j \in used

\* SceneGroup objects still referenced by the widget or by a live vertex list
Referenced(sg, b) == (IF sg = 0 THEN {} ELSE {sg}) \cup {b[v].parent : v \in DOMAIN b}

Collect(gs, sg, b) == [i \in Referenced(sg, b) |-> gs[i]]

(***************************************************************************)
(* SceneWidget.  A handler is an operator from the widget's fields before  *)
(* the call to its fields after it; w.raised tells whether the call ended  *)
(* by raising.  scene and rect are read, never written, by the handlers;   *)
(* w.rect is the rect the layout gave the widget last.                     *)
(***************************************************************************)
Widget ==
    [scene_group |-> scene_group, groups |-> groups,
     vertex_list |-> vertex_list, textures |-> textures, batch |-> batch,
     trackball |-> trackball, mesh_list |-> mesh_list,
     mesh_group |-> mesh_group, rect |-> rect, raised |-> FALSE]

\* a scene group that starts from the identity view
NewSceneGroupResetsView(w) ==
    LET tb == Trackball(w.trackball)
        kept == Collect(w.groups, 0, w.batch)
        id == Fresh(DOMAIN kept)
    IN  [w EXCEPT !.trackball = tb,
                  !.scene_group = id,
                  !.groups = Put(kept, id,
                                 [rect |-> w.rect, view_transform |-> 0])]

\* SceneGroup(rect=self.rect, ..., view_transform=self._trackball.pose.copy())
\* assigned to self.scene_group; the group it replaces stays alive only
\* while a vertex list is drawn under it
NewSceneGroup(w) ==
    LET tb == Trackball(w.trackball)
        kept == Collect(w.groups, 0, w.batch)
        id == Fresh(DOMAIN kept)
    IN  [w EXCEPT !.trackball = tb,
                  !.scene_group = id,
                  !.groups = Put(kept, id,
                                 [rect |-> w.rect,
                                  view_transform |-> tb.n_pose])]

\* the loop of do_draw over scene.graph.nodes_geometry, from node i on
RECURSIVE SyncNodes(_, _)
SyncNodes(w, i) ==
    IF i > Len(scene.nodes) THEN w
    ELSE
        LET geometry_name == scene.nodes[i]
            kind == scene.geometry[geometry_name]
        IN  IF kind = "notTrimesh" THEN [w EXCEPT !.raised = TRUE]
            ELSE IF HasMaterial(kind) /\ material_to_texture(kind) = "raise"
            THEN [w EXCEPT !.raised = TRUE]
            ELSE
                LET tx == IF HasMaterial(kind)
                          THEN Put(w.textures, geometry_name,
                                   material_to_texture(kind))
                          ELSE w.textures
                    group ==
                        [transform |-> i,
                         texture |-> IF geometry_name \in DOMAIN tx
                                     THEN tx[geometry_name] ELSE "None",
                         parent |-> w.scene_group]
                    v == Fresh(DOMAIN w.batch)
                IN  SyncNodes(
                        [w EXCEPT !.textures = tx,
                                  !.batch = Put(w.batch, v, group),
                                  !.vertex_list =
                                      Put(w.vertex_list, geometry_name, v)],
                        i + 1)

\* do_draw without its early return: every call builds
do_draw_rebuilds(w) == SyncNodes(NewSceneGroup(w), 1)

\* a do_draw that takes a scene without geometry nodes for an error
do_draw_needs_nodes(w) ==
    IF DOMAIN w.vertex_list # {} THEN w
    ELSE IF Len(scene.nodes) = 0 THEN [NewSceneGroup(w) EXCEPT !.raised = TRUE]
    ELSE SyncNodes(NewSceneGroup(w), 1)

do_draw(w) ==
    IF DOMAIN w.vertex_list # {} THEN w
    ELSE SyncNodes(NewSceneGroup(w), 1)

\* a do_regroup that releases what is cached
do_regroup_releases(w) ==
    IF DOMAIN w.vertex_list = {} THEN w
    ELSE [NewSceneGroup(w) EXCEPT !.vertex_list = Empty, !.textures = Empty]

\* do_regroup: the loop body reads the name transform, which is bound
\* neither in the method nor in the module, so its first iteration raises
do_regroup(w) ==
    IF DOMAIN w.vertex_list = {} THEN w
    ELSE [NewSceneGroup(w) EXCEPT !.raised = TRUE]

do_undraw(w) ==
    IF DOMAIN w.vertex_list = {} THEN w
    ELSE [w EXCEPT
            !.batch = [v \in DOMAIN w.batch \
                             {w.vertex_list[g] : g \in DOMAIN w.vertex_list}
                         |-> w.batch[v]],
            !.vertex_list = Empty,
            !.textures = Empty]

\* glooey's Widget._draw: asks the widget to draw itself
RequestDraw(w) == do_draw(w)

\* a handler that makes a new scene group for the new pose
UpdateViewRegroups(w) ==
    IF w.scene_group = 0 THEN w ELSE NewSceneGroup(w)

\* if self.scene_group: self.scene_group.view_transform = pose.copy()
UpdateView(w) ==
    IF w.scene_group = 0 THEN w
    ELSE [w EXCEPT !.groups[w.scene_group].view_transform = w.trackball.n_pose]

Bit(modifiers, flag) == (modifiers \div flag) % 2 = 1

\* a mode selection that tests ctrl before it tests ctrl and shift
PressStateCtrlFirst(buttons, modifiers) ==
    LET ctrl == Bit(modifiers, MOD_CTRL)
        shift == Bit(modifiers, MOD_SHIFT)
    IN  IF buttons = LEFT
        THEN IF ctrl THEN STATE_ROLL
             ELSE IF shift THEN STATE_PAN
             ELSE STATE_ROTATE
        ELSE IF buttons = MIDDLE THEN STATE_PAN
        ELSE IF buttons = RIGHT THEN STATE_ZOOM
        ELSE STATE_ROTATE

\* the mode on_mouse_press selects
PressState(buttons, modifiers) ==
    LET ctrl == Bit(modifiers, MOD_CTRL)
        shift == Bit(modifiers, MOD_SHIFT)
    IN  IF buttons = LEFT
        THEN IF ctrl /\ shift THEN STATE_ZOOM
             ELSE IF ctrl THEN STATE_ROLL
             ELSE IF shift THEN STATE_PAN
             ELSE STATE_ROTATE
        ELSE IF buttons = MIDDLE THEN STATE_PAN
        ELSE IF buttons = RIGHT THEN STATE_ZOOM
        ELSE STATE_ROTATE

on_mouse_press(w, x, y, buttons, modifiers) ==
    LET tb == TbDown(TbSetState(Trackball(w.trackball),
                                PressState(buttons, modifiers)),
                     <<x, y>>)
    IN  RequestDraw(UpdateView([w EXCEPT !.trackball = tb]))

\* a rectangle test that leaves the edges out
InsideStrict(x_prev, y_prev) ==
    /\ rect.left < x_prev /\ x_prev < rect.left + rect.width
    /\ rect.bottom < y_prev /\ y_prev < rect.bottom + rect.height

\* whether the previous pointer position lies in the widget's rectangle
Inside(x_prev, y_prev) ==
    /\ rect.left <= x_prev /\ x_prev <= rect.left + rect.width
    /\ rect.bottom <= y_prev /\ y_prev <= rect.bottom + rect.height

\* an on_mouse_drag that selects the mode anew from its buttons and modifiers
on_mouse_drag_reselects(w, x, y, dx, dy, buttons, modifiers) ==
    LET tb0 == TbSetState(Trackball(w.trackball),
                          PressState(buttons, modifiers))
        tb1 == IF ~Inside(x - dx, y - dy) THEN TbDown(tb0, <<x, y>>) ELSE tb0
        tb2 == TbDrag(tb1, <<x, y>>)
    IN  RequestDraw(UpdateView([w EXCEPT !.trackball = tb2]))

\* buttons and modifiers are parameters the handler never reads
on_mouse_drag(w, x, y, dx, dy, buttons, modifiers) ==
    LET tb0 == Trackball(w.trackball)
        tb1 == IF ~Inside(x - dx, y - dy) THEN TbDown(tb0, <<x, y>>) ELSE tb0
        tb2 == TbDrag(tb1, <<x, y>>)
    IN  RequestDraw(UpdateView([w EXCEPT !.trackball = tb2]))

on_mouse_scroll(w, dy) ==
    RequestDraw(UpdateView(
        [w EXCEPT !.trackball = TbScroll(Trackball(w.trackball), dy)]))

(***************************************************************************)
(* MeshWidget.  Its SceneGroup (mesh_widget.py) has a rect and no view     *)
(* transform: view_transform is -1 in groups.                              *)
(***************************************************************************)
mesh_do_draw(w) ==
    IF w.mesh_list # 0 THEN w
    ELSE
        LET kept == Collect(w.groups, 0, w.batch)
            id == Fresh(DOMAIN kept)
            gs == Put(kept, id, [rect |-> w.rect, view_transform |-> -1])
            v == Fresh(DOMAIN w.batch)
        IN  [w EXCEPT
                !.mesh_group = 1,
                !.groups = gs,
                !.batch = Put(w.batch, v,
                              [transform |-> 1, texture |-> "None",
                               parent |-> id]),
                !.mesh_list = v]

\* do_regroup: MeshGroup(SceneGroup(...), transform=transform) raises before
\* self.mesh_group is assigned (transform is unbound, or given twice)
mesh_do_regroup(w) ==
    IF w.mesh_list = 0 THEN w
    ELSE [w EXCEPT !.raised = TRUE]

mesh_do_undraw(w) ==
    IF w.mesh_list = 0 THEN w
    ELSE [w EXCEPT
            !.batch = [v \in DOMAIN w.batch \ {w.mesh_list} |-> w.batch[v]],
            !.mesh_list = 0]

(***************************************************************************)
(* The actions: one call of one handler.                                   *)
(***************************************************************************)
\* the widget's fields after a handler, unreferenced SceneGroups dropped
Store(w) ==
    /\ scene_group' = w.scene_group
    /\ groups' = Collect(w.groups, w.scene_group, w.batch)
    /\ vertex_list' = w.vertex_list
    /\ textures' = w.textures
    /\ batch' = w.batch
    /\ trackball' = w.trackball
    /\ mesh_list' = w.mesh_list
    /\ mesh_group' = w.mesh_group
    /\ raised' = w.raised
    /\ rect' = w.rect
    /\ UNCHANGED <<widget, scene>>
    /\ UNCHANGED glVars

\* a do_draw call that builds is explored while the batch, which holds at
\* most MaxNodes vertex lists, has room for the scene's
Room ==
    \/ DOMAIN vertex_list # {}
    \/ Cardinality(DOMAIN batch) + Len(scene.nodes) <= MaxNodes

\* calls after one more do_draw call
Count(n) == IF n < 2 THEN n + 1 ELSE n

DoDraw ==
    /\ widget = "SceneWidget"
    /\ Room
    /\ Store(do_draw(Widget))
    /\ lastOp' = "draw"
    /\ calls' = Count(calls)

DoRegroup ==
    /\ widget = "SceneWidget"
    /\ Store(do_regroup(Widget))
    /\ lastOp' = "regroup"
    /\ UNCHANGED calls

DoUndraw ==
    /\ widget = "SceneWidget"
    /\ Store(do_undraw(Widget))
    /\ lastOp' = "undraw"
    /\ calls' = 0

OnMousePress(x, y, buttons, modifiers) ==
    /\ widget = "SceneWidget"
    /\ Room
    /\ Store(on_mouse_press(Widget, x, y, buttons, modifiers))
    /\ lastOp' = "press"
    /\ calls' = Count(calls)

\* pyglet reports a drag after a press, or as the pointer comes in from
\* outside the widget
OnMouseDrag(x, y, dx, dy, buttons, modifiers) ==
    /\ widget = "SceneWidget"
    /\ Room
    /\ trackball.pdown # NoPoint \/ ~Inside(x - dx, y - dy)
    /\ Store(on_mouse_drag(Widget, x, y, dx, dy, buttons, modifiers))
    /\ lastOp' = "drag"
    /\ calls' = Count(calls)

OnMouseScroll(dy) ==
    /\ widget = "SceneWidget"
    /\ Room
    /\ Store(on_mouse_scroll(Widget, dy))
    /\ lastOp' = "scroll"
    /\ calls' = Count(calls)

MeshDoDraw ==
    /\ widget = "MeshWidget"
    /\ Store(mesh_do_draw(Widget))
    /\ lastOp' = "draw"
    /\ calls' = Count(calls)

MeshDoRegroup ==
    /\ widget = "MeshWidget"
    /\ Store(mesh_do_regroup(Widget))
    /\ lastOp' = "regroup"
    /\ UNCHANGED calls

MeshDoUndraw ==
    /\ widget = "MeshWidget"
    /\ Store(mesh_do_undraw(Widget))
    /\ lastOp' = "undraw"
    /\ calls' = 0

\* glooey's Widget._resize: the layout gives the widget a rect, and the
\* widget is asked to draw itself
DoResize(r) ==
    /\ widget = "SceneWidget"
    /\ Room
    /\ r # rect
    /\ Store(RequestDraw([Widget EXCEPT !.rect = r]))
    /\ lastOp' = "resize"
    /\ calls' = Count(calls)

Buttons == {LEFT}
Modifiers == {0, MOD_SHIFT}

\* SceneWidget(scene) or MeshWidget(mesh, transform), just constructed and
\* given its rectangle
WidgetInit(widgets, scenes) ==
    /\ widget \in widgets
    /\ scene \in (IF widget = "SceneWidget" THEN scenes ELSE {NoScene})
    /\ mesh_list = 0
    /\ mesh_group = 0
    /\ rect = WidgetRect
    /\ scene_group = 0
    /\ groups = Empty
    /\ vertex_list = Empty
    /\ textures = Empty
    /\ batch = Empty
    /\ trackball = NoTrackball
    /\ lastOp = "init"
    /\ raised = FALSE
    /\ calls = 0

\* no draw under way
NoDraw ==
    /\ gl = <<>>
    /\ gl0 = <<>>
    /\ tree = <<>>
    /\ saved = <<>>
    /\ pc = [phase |-> "idle", i |-> 0]
    /\ trace = <<>>

Init == WidgetInit({"SceneWidget", "MeshWidget"}, Scenes) /\ NoDraw

Next ==
    \/ DoDraw
    \/ DoRegroup
    \/ DoUndraw
    \/ \E x \in PointerXs, y \in PointerYs, b \in Buttons, m \in Modifiers :
           OnMousePress(x, y, b, m)
    \/ \E x \in PointerXs, y \in PointerYs, dx \in Deltas, dy \in Still,
          b \in Buttons, m \in Modifiers :
           OnMouseDrag(x, y, dx, dy, b, m)
    \/ \E dy \in Deltas : OnMouseScroll(dy)
    \/ MeshDoDraw
    \/ MeshDoRegroup
    \/ MeshDoUndraw

Spec == Init /\ [][Next]_vars

\* the widgets on scenes whose geometries differ in their material
MaterialInit ==
    WidgetInit({"SceneWidget", "MeshWidget"}, MaterialScenes) /\ NoDraw

SpecMaterial == MaterialInit /\ [][Next]_vars

(***************************************************************************)
(* The navigation of a SceneWidget: pointer events anywhere around the     *)
(* widget's rectangle, with any button and modifiers, on scenes of at most *)
(* one plain geometry.                                                     *)
(***************************************************************************)
NavXs == {0, 1}
NavYs == {0, 1}

\* LEFT | RIGHT stands for several buttons at once
NavButtons == {LEFT, MIDDLE, RIGHT, LEFT + RIGHT}

\* 4 is a modifier other than shift and ctrl (MOD_ALT)
NavModifiers == {0, MOD_SHIFT, MOD_CTRL, MOD_SHIFT + MOD_CTRL, 4}

\* the buttons and modifiers a drag event carries
DragButtons == {LEFT, RIGHT}
DragModifiers == {MOD_CTRL}

\* the scene without geometry nodes and the scene with one
NavScenes == {s \in ScenesOf({"plain"}) : Len(s.nodes) <= 1}

NavInit == WidgetInit({"SceneWidget"}, NavScenes) /\ NoDraw

NavNext ==
    \/ DoDraw
    \/ DoRegroup
    \/ DoUndraw
    \/ \E x \in NavXs, y \in NavYs, b \in NavButtons, m \in NavModifiers :
           OnMousePress(x, y, b, m)
    \/ \E x \in NavXs, y \in NavYs, dx \in Deltas, dy \in Deltas,
          b \in DragButtons, m \in DragModifiers :
           OnMouseDrag(x, y, dx, dy, b, m)
    \/ \E dy \in Deltas : OnMouseScroll(dy)

SpecNav == NavInit /\ [][NavNext]_vars

(***************************************************************************)
(* A SceneWidget whose layout changes: the widget is given the rect it     *)
(* started with or one twice as wide.                                      *)
(***************************************************************************)
WideRect == [left |-> 0, bottom |-> 0, width |-> 2, height |-> 1]

Rects == {WidgetRect, WideRect}

ResizeNext ==
    \/ DoDraw
    \/ DoRegroup
    \/ DoUndraw
    \/ \E r \in Rects : DoResize(r)
    \/ \E x \in PointerXs, y \in PointerYs, b \in Buttons, m \in Modifiers :
           OnMousePress(x, y, b, m)
    \/ \E x \in PointerXs, y \in PointerYs, dx \in Deltas, dy \in Still,
          b \in Buttons, m \in Modifiers :
           OnMouseDrag(x, y, dx, dy, b, m)
    \/ \E dy \in Deltas : OnMouseScroll(dy)

SpecResize == NavInit /\ [][ResizeNext]_vars

(***************************************************************************)
(* The OpenGL state the groups act on.  A matrix is the sequence of the    *)
(* factors multiplied into it since it was the identity; a matrix stack    *)
(* has its top last.  The attribute stack holds the enable flags saved by  *)
(* glPushAttrib(GL_ENABLE_BIT).                                            *)
(***************************************************************************)
Factor(name, a, b) == [name |-> name, a |-> a, b |-> b]

Box(r) == <<r.left, r.bottom, r.width, r.height>>

Top(stack) == stack[Len(stack)]

Pop(stack) == SubSeq(stack, 1, Len(stack) - 1)

SetTop(stack, m) == [stack EXCEPT ![Len(stack)] = m]

\* the field of gl that holds the stack of the current matrix mode
StackOf(g) ==
    IF g.mode = "GL_PROJECTION" THEN g.projection
    ELSE IF g.mode = "GL_MODELVIEW" THEN g.modelview
    ELSE g.texture

WithStack(g, st) ==
    IF g.mode = "GL_PROJECTION" THEN [g EXCEPT !.projection = st]
    ELSE IF g.mode = "GL_MODELVIEW" THEN [g EXCEPT !.modelview = st]
    ELSE [g EXCEPT !.texture = st]

glPushAttrib(g) == [g EXCEPT !.attrib = Append(g.attrib, g.enabled)]

glPopAttrib(g) ==
    IF g.attrib = <<>> THEN g
    ELSE [g EXCEPT !.enabled = Top(g.attrib), !.attrib = Pop(g.attrib)]

glEnable(g, cap) == [g EXCEPT !.enabled = g.enabled \cup {cap}]

glDisable(g, cap) == [g EXCEPT !.enabled = g.enabled \ {cap}]

glScissor(g, box) == [g EXCEPT !.scissor = box]

glViewport(g, box) == [g EXCEPT !.viewport = box]

glMatrixMode(g, mode) == [g EXCEPT !.mode = mode]

glClearColor(g, color) == [g EXCEPT !.clear_color = color]

glPushMatrix(g) == WithStack(g, Append(StackOf(g), Top(StackOf(g))))

glPopMatrix(g) ==
    IF Len(StackOf(g)) <= 1 THEN g ELSE WithStack(g, Pop(StackOf(g)))

glLoadIdentity(g) == WithStack(g, SetTop(StackOf(g), <<>>))

glMultMatrixf(g, f) ==
    WithStack(g, SetTop(StackOf(g), Append(Top(StackOf(g)), f)))

\* _enable_depth, _enable_color_material, _enable_blending,
\* _enable_smooth_lines, _enable_lighting: the flags they enable
EnableAll(g) ==
    [g EXCEPT !.enabled = g.enabled \cup
        {"GL_DEPTH_TEST", "GL_CULL_FACE", "GL_COLOR_MATERIAL", "GL_BLEND",
         "GL_LINE_SMOOTH", "GL_LIGHTING", "GL_LIGHT0"}]

(***************************************************************************)
(* SceneGroup and MeshGroup, of scene_widget.py and of mesh_widget.py      *)
(* (file says which).  SceneSetState gives the OpenGL state, what the      *)
(* group saved, and whether set_state raised: gluPerspective is given      *)
(* width / height, which raises when int(rect.height) is 0.                *)
(***************************************************************************)
SceneSetState(g, file, r) ==
    LET g1 == glScissor(glEnable(glPushAttrib(g), "GL_SCISSOR_TEST"), Box(r))
        sv == [mode |-> g1.mode, viewport |-> g1.viewport]
        g2 == glLoadIdentity(glPushMatrix(
                  glMatrixMode(glViewport(g1, Box(r)), "GL_PROJECTION")))
        g3 == glMatrixMode(
                  glMultMatrixf(g2, Factor("perspective", r.width, r.height)),
                  "GL_MODELVIEW")
        g4 == EnableAll(glClearColor(g3, "near white"))
        g5 == glMultMatrixf(
                  glMultMatrixf(glLoadIdentity(glPushMatrix(g4)),
                                Factor("camera_transform", 0, 0)),
                  Factor("view_transform", 0, 0))
    IN  IF r.height = 0 THEN [gl |-> g2, saved |-> sv, raised |-> TRUE]
        ELSE IF file = "scene_widget"
        THEN [gl |-> g5, saved |-> sv, raised |-> FALSE]
        ELSE [gl |-> g4, saved |-> sv, raised |-> FALSE]

\* an unset_state that forgets to pop the modelview matrix
SceneUnsetStateNoPop(g, file, sv) ==
    glPopAttrib(glViewport(
        glMatrixMode(
            glPopMatrix(glMatrixMode(glClearColor(g, "transparent black"),
                                     "GL_PROJECTION")),
            sv.mode),
        sv.viewport))

SceneUnsetState(g, file, sv) ==
    LET g1 == IF file = "scene_widget" THEN glPopMatrix(g) ELSE g
        g2 == glClearColor(g1, "transparent black")
        g3 == glPopMatrix(glMatrixMode(g2, "GL_PROJECTION"))
        g4 == glViewport(glMatrixMode(g3, sv.mode), sv.viewport)
    IN  glPopAttrib(g4)

MeshSetState(g, file, m) ==
    IF file = "scene_widget"
    THEN LET g1 == glMultMatrixf(glPushMatrix(g),
                                 Factor("transform", m.transform, 0))
         IN  IF m.texture # "None" THEN glEnable(g1, "GL_TEXTURE_2D") ELSE g1
    ELSE glMultMatrixf(glLoadIdentity(glPushMatrix(g)),
                       Factor("transform", m.transform, 0))

MeshUnsetState(g, file, m) ==
    IF file = "scene_widget" /\ m.texture # "None"
    THEN glPopMatrix(glDisable(g, "GL_TEXTURE_2D"))
    ELSE glPopMatrix(g)

(***************************************************************************)
(* One draw of a widget's groups by the batch: the SceneGroup is entered,  *)
(* then each MeshGroup is entered, its vertex list drawn, and the group    *)
(* left, and the SceneGroup is left last.  Drawing a vertex list can fail: *)
(* with an OpenGL error that is only recorded, or with an exception that   *)
(* ends the draw.                                                          *)
(***************************************************************************)
Step(g, phase, i, enters, exits, failed) ==
    /\ gl' = g
    /\ pc' = [phase |-> phase, i |-> i]
    /\ trace' = [enters |-> trace.enters + enters,
                 exits |-> trace.exits + exits,
                 failed |-> trace.failed \cup failed]
    /\ UNCHANGED <<gl0, tree>>
    /\ UNCHANGED widgetVars

EnterScene ==
    /\ pc.phase = "start"
    /\ LET r == SceneSetState(gl, tree.file, tree.rect)
       IN  /\ saved' = r.saved
           /\ IF r.raised
              THEN Step(r.gl, "aborted", 0, 0, 0, {})
              ELSE Step(r.gl, "enter", 1, 1, 0, {})

EnterMesh ==
    /\ pc.phase = "enter"
    /\ Step(MeshSetState(gl, tree.file, tree.meshes[pc.i]),
            "draw", pc.i, 1, 0, {})
    /\ UNCHANGED saved

DrawList(outcome) ==
    /\ pc.phase = "draw"
    /\ IF outcome = "drawn" THEN Step(gl, "exit", pc.i, 0, 0, {})
       ELSE IF outcome = "error" THEN Step(gl, "exit", pc.i, 0, 0, {pc.i})
       ELSE Step(gl, "aborted", pc.i, 0, 0, {pc.i})
    /\ UNCHANGED saved

ExitMesh ==
    /\ pc.phase = "exit"
    /\ IF pc.i < Len(tree.meshes)
       THEN Step(MeshUnsetState(gl, tree.file, tree.meshes[pc.i]),
                 "enter", pc.i + 1, 0, 1, {})
       ELSE Step(MeshUnsetState(gl, tree.file, tree.meshes[pc.i]),
                 "leave", 0, 0, 1, {})
    /\ UNCHANGED saved

ExitScene ==
    /\ pc.phase = "leave"
    /\ Step(SceneUnsetState(gl, tree.file, saved), "done", 0, 0, 1, {})
    /\ UNCHANGED saved

GLRects ==
    {WidgetRect, [left |-> 1, bottom |-> 0, width |-> 1, height |-> 0]}

WindowBox == <<0, 0, 2, 1>>

Modes == {"GL_MODELVIEW", "GL_PROJECTION", "GL_TEXTURE"}

\* a stack of the given depth, left by earlier drawing
PriorStack(name, depth) == [k \in 1..depth |-> <<Factor(name, k, 0)>>]

PriorGL ==
    {[attrib |-> a, enabled |-> e, scissor |-> s, viewport |-> WindowBox,
      mode |-> m, clear_color |-> "transparent black",
      projection |-> PriorStack("projection", d),
      modelview |-> PriorStack("modelview", d),
      texture |-> PriorStack("texture", 1)] :
        a \in {<<>>, <<{}>>},
        e \in {{}, {"GL_SCISSOR_TEST", "GL_TEXTURE_2D"}},
        s \in {WindowBox, Box(WidgetRect)},
        m \in Modes,
        d \in 1..MaxDepth}

\* the groups of a SceneWidget with 1..MaxNodes cached vertex lists, or of a
\* MeshWidget with its one vertex list
Trees ==
    {[file |-> "scene_widget", rect |-> r,
      meshes |-> [i \in 1..n |-> [transform |-> i, texture |-> t[i]]]] :
        r \in GLRects, n \in 1..MaxNodes,
        t \in [1..MaxNodes -> {"None", "texture"}]}
    \cup
    {[file |-> "mesh_widget", rect |-> r,
      meshes |-> <<[transform |-> 1, texture |-> "None"]>>] : r \in GLRects}

Outcomes == {"drawn", "error", "raise"}

GLInit ==
    /\ WidgetInit({"SceneWidget"}, {NoScene})
    /\ gl \in PriorGL
    /\ gl0 = gl
    /\ tree \in Trees
    /\ saved = <<>>
    /\ pc = [phase |-> "start", i |-> 0]
    /\ trace = [enters |-> 0, exits |-> 0, failed |-> {}]

GLNext ==
    \/ EnterScene
    \/ EnterMesh
    \/ \E outcome \in Outcomes : DrawList(outcome)
    \/ ExitMesh
    \/ ExitScene

SpecGL == GLInit /\ [][GLNext]_vars

(***************************************************************************)
(* Properties of the widgets.                                              *)
(***************************************************************************)
PointerOps == {"press", "drag", "scroll"}

\* the vertex lists the widget holds in its cache
Cached ==
    {vertex_list[g] : g \in DOMAIN vertex_list}
        \cup (IF mesh_list = 0 THEN {} ELSE {mesh_list})

\* whether do_draw can build a vertex list for a geometry of this kind
Buildable(kind) == kind \notin {"notTrimesh", "badMaterial"}

\* C1: once do_draw has been called, no later call of it (direct, or from a
\* pointer handler) builds a vertex list until do_undraw is called: the
\* vertex lists built by N calls in a row are those built by the first.
C1_DrawBuildsOnce ==
    [][calls >= 1 => DOMAIN batch' \subseteq DOMAIN batch]_vars

C1_Witness ==
    /\ widget = "SceneWidget"
    /\ lastOp = "draw"
    /\ calls = 2
    /\ Cardinality(DOMAIN batch) = MaxNodes

\* C2: the SceneWidget's live vertex lists are as many as the entries of
\* its vertex_list cache: one per geometry name.
C2_OneListPerGeometry ==
    widget = "SceneWidget" =>
        Cardinality(DOMAIN batch) = Cardinality(DOMAIN vertex_list)

\* C3: do_regroup called with a non-empty cache returns, having put every
\* cached vertex list under the new self.scene_group and having created or
\* deleted no vertex list.
C3_RegroupReparents ==
    [][(lastOp' = "regroup" /\ Cached # {}) =>
          /\ ~raised'
          /\ DOMAIN batch' = DOMAIN batch
          /\ widget = "SceneWidget" =>
                \A v \in Cached : batch'[v].parent = scene_group']_vars

\* C4: do_regroup leaves the key sets of vertex_list and of textures as
\* they were, whether it returns or raises.
C4_RegroupKeepsKeys ==
    [][lastOp' = "regroup" =>
          /\ DOMAIN vertex_list' = DOMAIN vertex_list
          /\ DOMAIN textures' = DOMAIN textures]_vars

C4_Witness ==
    /\ lastOp = "regroup"
    /\ raised
    /\ DOMAIN vertex_list # {}
    /\ DOMAIN textures # {}

\* C5: while the cache is non-empty, the scene group every cached vertex
\* list is drawn under has the trackball's current pose as view_transform.
C5_ViewFollowsPose ==
    (widget = "SceneWidget" /\ DOMAIN vertex_list # {}) =>
        \A g \in DOMAIN vertex_list :
            groups[batch[vertex_list[g]].parent].view_transform
                = trackball.n_pose

\* C6 as claimed: a pointer handler builds no vertex list and leaves both
\* caches as they were, in every state.
C6_PointerNeverSyncs ==
    [][lastOp' \in PointerOps =>
          /\ batch' = batch
          /\ vertex_list' = vertex_list
          /\ textures' = textures]_vars

\* C6 as amended: while the cache is non-empty, a pointer handler builds no
\* vertex list, leaves both caches as they were, keeps the scene group and
\* changes at most that group's view_transform.
C6_PointerKeepsSyncedCache ==
    [][(lastOp' \in PointerOps /\ DOMAIN vertex_list # {}) =>
          /\ batch' = batch
          /\ vertex_list' = vertex_list
          /\ textures' = textures
          /\ scene_group' = scene_group
          /\ DOMAIN groups' = DOMAIN groups
          /\ \A i \in DOMAIN groups :
                /\ groups'[i].rect = groups[i].rect
                /\ i # scene_group => groups'[i] = groups[i]]_vars

C6_Witness ==
    /\ lastOp = "drag"
    /\ calls = 2
    /\ DOMAIN vertex_list # {}
    /\ trackball.n_pose # 0
    /\ groups[scene_group].view_transform = trackball.n_pose

\* C7: after do_undraw no vertex list is alive and both caches are empty.
C7_UndrawReleasesAll ==
    lastOp = "undraw" =>
        /\ batch = Empty
        /\ vertex_list = Empty
        /\ textures = Empty
        /\ mesh_list = 0

\* C8: a node do_draw fails on does not keep the other nodes from being
\* cached: after a second draw request every node with a buildable
\* geometry has its geometry in vertex_list.
C8_FailureIsolated ==
    (widget = "SceneWidget" /\ calls = 2) =>
        \A i \in DOMAIN scene.nodes :
            Buildable(scene.geometry[scene.nodes[i]]) =>
                scene.nodes[i] \in DOMAIN vertex_list

C10_ExitRestores ==
    pc.phase = "done" =>
        /\ gl.scissor = gl0.scissor
        /\ gl.viewport = gl0.viewport
        /\ gl.mode = gl0.mode
        /\ Top(gl.projection) = Top(gl0.projection)
        /\ Top(gl.modelview) = Top(gl0.modelview)

(***************************************************************************)
(* Properties of the materials, of empty scenes and of the navigation.     *)
(***************************************************************************)
\* C11: a node whose material gives no texture, because the conversion
\* returns None or because it raises, is still cached by do_draw: the draw
\* does not raise, the node's geometry is a key of vertex_list, and the
\* group its vertex list is drawn under has no texture.
C11_NoTextureStillCached ==
    (widget = "SceneWidget" /\ lastOp = "draw") =>
        /\ ~raised
        /\ \A i \in DOMAIN scene.nodes :
               LET g == scene.nodes[i]
                   kind == scene.geometry[g]
               IN  (HasMaterial(kind) /\ material_to_texture(kind) # "texture")
                       => /\ g \in DOMAIN vertex_list
                          /\ batch[vertex_list[g]].texture = "None"

\* C12: on a scene with no geometry nodes no handler ever caches or
\* creates a vertex list or a texture, and none raises, however often a
\* draw is requested.
C12_EmptySceneStaysEmpty ==
    (widget = "SceneWidget" /\ Len(scene.nodes) = 0) =>
        /\ vertex_list = Empty
        /\ textures = Empty
        /\ batch = Empty
        /\ ~raised

\* a second draw request on a scene with no geometry nodes has returned
C12_Witness ==
    /\ widget = "SceneWidget"
    /\ Len(scene.nodes) = 0
    /\ lastOp = "draw"
    /\ calls = 2
    /\ scene_group # 0

\* C13: the trackball's mode changes only in on_mouse_press: a drag, a
\* scroll, or any other handler leaves it as the last press set it,
\* whatever buttons and modifiers the event carries.
C13_ModeFixedDuringGesture ==
    [][lastOp' # "press" => trackball'.state = trackball.state]_vars

\* a drag has moved the pose in the roll mode its press selected
C13_Witness ==
    /\ lastOp = "drag"
    /\ trackball.state = STATE_ROLL
    /\ trackball.pdown # NoPoint
    /\ trackball.n_pose # trackball.pose

\* C16: whatever state the widget is in, the mode in effect when
\* on_mouse_press has recorded the start point is the one this table gives
\* for its buttons and modifiers: LEFT with ctrl and shift ZOOM, LEFT with
\* ctrl ROLL, LEFT with shift PAN, LEFT alone ROTATE, MIDDLE PAN, RIGHT
\* ZOOM, anything else ROTATE.
C16_PressSelectsMode ==
    \A x \in NavXs, y \in NavYs, b \in NavButtons, m \in NavModifiers :
        LET tb == on_mouse_press(Widget, x, y, b, m).trackball
            ctrl == m \in {MOD_CTRL, MOD_CTRL + MOD_SHIFT}
            shift == m \in {MOD_SHIFT, MOD_CTRL + MOD_SHIFT}
        IN  /\ tb.pdown = <<x, y>>
            /\ tb.state =
                   CASE b = LEFT /\ ctrl /\ shift -> STATE_ZOOM
                     [] b = LEFT /\ ctrl /\ ~shift -> STATE_ROLL
                     [] b = LEFT /\ ~ctrl /\ shift -> STATE_PAN
                     [] b = LEFT /\ ~ctrl /\ ~shift -> STATE_ROTATE
                     [] b = MIDDLE -> STATE_PAN
                     [] b = RIGHT -> STATE_ZOOM
                     [] OTHER -> STATE_ROTATE

\* a press with the left button, ctrl and shift has selected the zoom mode
\* over the roll mode of the gesture before it
C16_Witness ==
    /\ lastOp = "press"
    /\ trackball.state = STATE_ZOOM
    /\ trackball.pdown = <<1, 1>>
    /\ trackball.pose # 0

\* C17: whatever state the widget is in, a drag whose previous position
\* (x - dx, y - dy) is outside the widget's rectangle, edges counting as
\* inside, anchors the gesture at (x, y) and moves nothing; a drag whose
\* previous position is inside leaves the anchor alone and moves the pose
\* by drag(x, y).
C17_DragReanchorsOutside ==
    \A x \in NavXs, y \in NavYs, dx \in Deltas, dy \in Deltas,
       b \in DragButtons, m \in DragModifiers :
        LET px == x - dx
            py == y - dy
            inside == /\ px \in rect.left..(rect.left + rect.width)
                      /\ py \in rect.bottom..(rect.bottom + rect.height)
            tb == on_mouse_drag(Widget, x, y, dx, dy, b, m).trackball
        IN  IF inside
            THEN trackball.pdown # NoPoint =>
                    /\ tb.pdown = trackball.pdown
                    /\ tb.pose = trackball.pose
                    /\ tb.n_pose = TbDrag(trackball, <<x, y>>).n_pose
            ELSE /\ tb.pdown = <<x, y>>
                 /\ tb.pose = trackball.n_pose
                 /\ tb.n_pose = trackball.n_pose

\* a drag came in from outside the rectangle while the pose had been moved:
\* the gesture is anchored where the pointer is and the pose is kept
C17_Witness ==
    /\ lastOp = "drag"
    /\ trackball.pdown = <<0, 1>>
    /\ trackball.n_pose # 0
    /\ trackball.pose = trackball.n_pose

\* C14: a do_regroup that finds cached vertex lists, as after the layout
\* changed the widget's rect, leaves the trackball as it was, and the
\* scene group it makes has the view_transform of the scene group it
\* replaces and the widget's current rect.
C14_ResizeKeepsNavigation ==
    [][(lastOp' = "regroup" /\ widget = "SceneWidget"
            /\ DOMAIN vertex_list # {}) =>
        /\ trackball' = trackball
        /\ scene_group' \in DOMAIN groups'
        /\ groups'[scene_group'].view_transform =
               groups[scene_group].view_transform
        /\ groups'[scene_group'].rect = rect']_vars

\* after a navigation moved the pose the widget was made wider and
\* regrouped: the scene group has the new rect and the moved view, and the
\* group it replaced, with the old rect, is still there
C14_Witness ==
    /\ lastOp = "regroup"
    /\ rect = WideRect
    /\ trackball.n_pose # 0
    /\ groups[scene_group].rect = WideRect
    /\ groups[scene_group].view_transform = trackball.n_pose
    /\ \E i \in DOMAIN groups : groups[i].rect = WidgetRect

\* C15: once the trackball exists it stays; do_draw, do_regroup and
\* do_undraw leave it as it is; and a do_draw that builds, as the one after
\* a do_undraw, gives the new scene group the pose the trackball has
\* accumulated.
C15_TrackballLives ==
    [][/\ trackball.created => trackball'.created
       /\ (trackball.created /\ lastOp' \in {"draw", "regroup", "undraw"})
              => trackball' = trackball
       /\ (widget = "SceneWidget" /\ lastOp' = "draw"
              /\ DOMAIN vertex_list = {})
              => groups'[scene_group'].view_transform = trackball.n_pose]_vars

\* the first draw after an undraw has built the cache anew, under a scene
\* group that shows the pose moved before the undraw
C15_Witness ==
    /\ lastOp = "draw"
    /\ calls = 1
    /\ DOMAIN vertex_list # {}
    /\ trackball.n_pose # 0
    /\ groups[scene_group].view_transform = trackball.n_pose
====
